---- MODULE Spec2Model ----
(***************************************************************************)
(* Model of the retrieval-augmented chat backend                           *)
(* (LangChain-Chatbot/backend: app.py, loader.py, chat_persistence.py).    *)
(*                                                                         *)
(* Text is a sequence of one-character strings so that str.strip(),        *)
(* str.join() and slicing are computed rather than assumed.  A request is  *)
(* a record in rq; its field pc is the handler's position.  Every database *)
(* commit, the retrieval, the model call and every yield of the streaming  *)
(* generator is one step, so handlers of different requests interleave at  *)
(* exactly those points.                                                   *)
(***************************************************************************)
EXTENDS Integers, Sequences, FiniteSets, TLC

(***************************************************************************)
(* Bounds of the model.                                                    *)
(***************************************************************************)
MaxK == 2
MaxChunks == 2
MaxPages == 2

Requests == {"r1", "r2"}
Users == {1, 2}

(***************************************************************************)
(* Text constants of app.py.                                               *)
(***************************************************************************)
FALLBACK == <<"S", "o", "r", "r", "y", ",", " ", "I", " ", "d", "o", "n", "'", "t", " ", "h", "a", "v", "e", " ", "t", "h", "a", "t", " ", "i", "n", "f", "o", "r", "m", "a", "t", "i", "o", "n", ".">>
PROMPT_FOR_INPUT == <<"P", "l", "e", "a", "s", "e", " ", "s", "e", "n", "d", " ", "a", " ", "n", "o", "n", "-", "e", "m", "p", "t", "y", " ", "q", "u", "e", "s", "t", "i", "o", "n", ".">>
SEPARATOR == <<"\n", "\n", "-", "-", "-", "\n", "\n">>
RecentLimit == 5

(***************************************************************************)
(* Inputs and outputs of the collaborators, drawn from small sets.         *)
(***************************************************************************)
Questions == { <<" ">>, <<" ", "a">> }
TopKs == 0..MaxK
ModelOutputs == { <<>>, <<" ", "n", "o", " ">> }
Pieces == { <<>>, <<" ", "o">> }
PageP == <<"p">>
PageQ == <<"q">>
PageR == <<"r">>
AllPages == <<PageP, PageQ, PageR>>
Vectors == {1, 4, 6}
SearchQueries == { <<"a">>, <<"b">>, <<"a", "b">> }

(***************************************************************************)
(* The (index, passages) pairs the startup can hand to the handlers: a     *)
(* fresh build (equal sizes) or whatever pair of files load_index found,   *)
(* which it returns without comparing their sizes.                         *)
(***************************************************************************)
Corpora ==
    { [index |-> <<4>>, pages |-> <<PageQ>>],
      [index |-> <<4, 1>>, pages |-> <<PageP>>] }

(***************************************************************************)
(* The pairs on which similarity_search is exercised on its own: every     *)
(* index of 1..MaxPages distinct vectors with every passage list of        *)
(* 0..MaxPages passages.                                                   *)
(***************************************************************************)
SearchCorpora ==
    { [index |-> ix, pages |-> SubSeq(AllPages, 1, n)] :
        ix \in { v \in UNION { [1..m -> Vectors] : m \in 1..MaxPages } :
                   \A i, j \in DOMAIN v : i # j => v[i] # v[j] },
        n \in 0..MaxPages }

(***************************************************************************)
(* str.strip()                                                             *)
(***************************************************************************)
IsSpace(c) == c \in {" ", "\n", "\t"}

RECURSIVE LStrip(_)
LStrip(s) ==
    IF s = <<>> THEN <<>>
    ELSE IF IsSpace(Head(s)) THEN LStrip(Tail(s)) ELSE s

RECURSIVE RStrip(_)
RStrip(s) ==
    IF s = <<>> THEN <<>>
    ELSE IF IsSpace(s[Len(s)]) THEN RStrip(SubSeq(s, 1, Len(s) - 1)) ELSE s

Strip(s) == RStrip(LStrip(s))

(***************************************************************************)
(* str.join(): the concatenation of the texts of seq with sep in between.  *)
(***************************************************************************)
RECURSIVE Join(_, _)
Join(sep, seq) ==
    IF seq = <<>> THEN <<>>
    ELSE IF Len(seq) = 1 THEN seq[1]
    ELSE seq[1] \o sep \o Join(sep, Tail(seq))

(***************************************************************************)
(* The embedding model: a deterministic map from a text to a vector (here  *)
(* one integer coordinate).                                                *)
(***************************************************************************)
CharCode(c) ==
    CASE c = "a" -> 1 [] c = "b" -> 4
      [] c = "p" -> 1 [] c = "q" -> 4 [] c = "r" -> 6
      [] OTHER -> 0

RECURSIVE Embed(_)
Embed(text) == IF text = <<>> THEN 0 ELSE CharCode(Head(text)) + Embed(Tail(text))

(***************************************************************************)
(* faiss IndexFlatL2.search: the ordinals (from 0) of the top_k vectors    *)
(* nearest to q by squared distance, nearest first; when the index holds   *)
(* fewer than top_k vectors the remaining labels are -1.                   *)
(***************************************************************************)
Dist(v, q) == (v - q) * (v - q)

Closer(ix, q, i, j) ==
    \/ Dist(ix[i + 1], q) < Dist(ix[j + 1], q)
    \/ Dist(ix[i + 1], q) = Dist(ix[j + 1], q) /\ i < j

RECURSIVE Nearest(_, _, _, _)
Nearest(ix, q, S, k) ==
    IF k = 0 THEN <<>>
    ELSE IF S = {} THEN <<-1>> \o Nearest(ix, q, S, k - 1)
    ELSE LET b == CHOOSE i \in S : \A j \in S \ {i} : Closer(ix, q, i, j)
         IN  <<b>> \o Nearest(ix, q, S \ {b}, k - 1)

IndexSearch(ix, q, top_k) == Nearest(ix, q, 0..(Len(ix) - 1), top_k)

(***************************************************************************)
(* pages[idx] of a Python list: a negative idx counts from the end.        *)
(***************************************************************************)
PyIndexValid(pgs, idx) == -Len(pgs) <= idx /\ idx < Len(pgs)
PyIndex(pgs, idx) == IF idx >= 0 THEN pgs[idx + 1] ELSE pgs[Len(pgs) + idx + 1]

(***************************************************************************)
(* The loop of similarity_search over the labels I[0]: a label passes the  *)
(* test idx < len(pages) and contributes pages[idx]; pages[idx] raises     *)
(* IndexError when idx is out of the list's range.                         *)
(***************************************************************************)
KeepOrdinal(idx, pgs) == idx < Len(pgs)

RECURSIVE MapOrdinals(_, _)
MapOrdinals(I, pgs) ==
    IF I = <<>> THEN [raised |-> FALSE, results |-> <<>>]
    ELSE LET rest == MapOrdinals(Tail(I), pgs)
             idx == Head(I)
         IN  IF KeepOrdinal(idx, pgs)
             THEN IF PyIndexValid(pgs, idx)
                  THEN [raised |-> rest.raised,
                        results |-> IF rest.raised THEN <<>>
                                    ELSE <<PyIndex(pgs, idx)>> \o rest.results]
                  ELSE [raised |-> TRUE, results |-> <<>>]
             ELSE rest

(***************************************************************************)
(* similarity_search: the set of its possible outcomes.  For top_k < 1     *)
(* the index either rejects the call (an exception) or returns no labels,  *)
(* depending on the library build.                                         *)
(***************************************************************************)
similarity_search(ix, pgs, query, top_k) ==
    IF top_k < 1
    THEN { [raised |-> TRUE, results |-> <<>>], [raised |-> FALSE, results |-> <<>>] }
    ELSE { MapOrdinals(IndexSearch(ix, Embed(query), top_k), pgs) }

format_context(results) == Join(SEPARATOR, results)

ContextText(results) == IF results # <<>> THEN format_context(results) ELSE <<>>

(***************************************************************************)
(* State.                                                                  *)
(*   index, pages  the globals of app.py set at startup                    *)
(*   sessions      rows of ChatSession: [id, user_id, title]               *)
(*   messages      rows of ChatMessage in insertion order:                 *)
(*                 [session_id, role, content] plus req, the request that  *)
(*                 saved the row (history, not read by the handlers)       *)
(*   next_id       the id the next ChatSession row gets                    *)
(*   rq            the requests in flight                                  *)
(*   disk          the two artifact files of loader.py:                    *)
(*                 [faiss, texts], each [state, build, content]            *)
(*   pdf           the document at PDF_PATH: [exists, units]               *)
(*   boot          the server process: its position in the startup code    *)
(***************************************************************************)
VARIABLES index, pages, sessions, messages, next_id, rq

VARIABLES disk, pdf, boot

vars == <<disk, pdf, boot, index, pages, sessions, messages, next_id, rq>>

(***************************************************************************)
(* Files and documents.                                                    *)
(***************************************************************************)
MaxBuilds == 2

AbsentFile == [state |-> "absent", build |-> 0, content |-> <<>>]
\* a file that was created and whose content is not completely written
PartialFile(b) == [state |-> "partial", build |-> b, content |-> <<>>]
FullFile(b, content) == [state |-> "full", build |-> b, content |-> content]

\* the units (pages) of a document as extract_text() gives them
NoDocument == [exists |-> FALSE, units |-> <<>>]
DocBlank == [exists |-> TRUE, units |-> << <<" ">>, <<>> >>]
DocP == [exists |-> TRUE, units |-> << <<" ", "p">> >>]
DocQ == [exists |-> TRUE, units |-> << <<"q", "\n">>, <<"\n">> >>]
DocQP == [exists |-> TRUE, units |-> << <<"q">>, <<" ">>, <<"p", " ">> >>]
Documents == {NoDocument, DocBlank, DocP, DocQ, DocQP}

OffBoot == [pc |-> "off", builds |-> 0, cause |-> "none", cached |-> FALSE,
            new_index |-> <<>>, new_pages |-> <<>>, disk0 |-> <<>>]

\* the process after a startup that found the pair c on disk or built it
ServingBoot == [OffBoot EXCEPT !.pc = "serving"]

DiskOf(c) ==
    [faiss |-> FullFile(IF Len(c.index) = Len(c.pages) THEN 1 ELSE 2, c.index),
     texts |-> FullFile(1, c.pages)]

SessionIds == 0..1

IdleReq ==
    [ path |-> "none", pc |-> "idle",
      uid |-> 0, user |-> <<>>, top_k |-> 0, session_id |-> 0,
      user_msg |-> <<>>, sid |-> 0,
      results |-> <<>>, recent |-> <<>>,
      answer |-> <<>>, response |-> <<>>,
      accumulated |-> <<>>, events |-> <<>>,
      status |-> 0, body |-> <<>>,
      owner_at_check |-> 0, created |-> 0,
      searched |-> FALSE, generated |-> FALSE, gen_failed |-> FALSE,
      cancelled |-> FALSE ]

Init ==
    /\ \E c \in Corpora : index = c.index /\ pages = c.pages /\ disk = DiskOf(c)
    /\ pdf = DocQ
    /\ boot = ServingBoot
    /\ sessions = { [id |-> 1, user_id |-> 1, title |-> <<"a">>] }
    /\ messages = <<>>
    /\ next_id = 2
    /\ rq = [r \in Requests |-> IdleReq]

(***************************************************************************)
(* Persistence (chat_persistence.py and the queries of app.py).            *)
(***************************************************************************)
TitleLimit == 50

\* mutant: a question of exactly TitleLimit characters is cut as well
SessionTitle_AtLimit(user_msg) ==
    IF Len(user_msg) >= TitleLimit
    THEN SubSeq(user_msg, 1, TitleLimit) \o <<".", ".", ".">>
    ELSE user_msg

\* `user_msg[:50] + "..." if len(user_msg) > 50 else user_msg`
SessionTitle(user_msg) ==
    IF Len(user_msg) > TitleLimit
    THEN SubSeq(user_msg, 1, TitleLimit) \o <<".", ".", ".">>
    ELSE user_msg

create_session(S, id, user_id, title) ==
    S \cup { [id |-> id, user_id |-> user_id, title |-> title] }

save_message(M, r, session_id, role, content) ==
    Append(M, [session_id |-> session_id, role |-> role, content |-> content, req |-> r])

\* mutant: the session is looked up by id alone
OwnedSession_AnyOwner(S, session_id, uid) ==
    \E s \in S : s.id = session_id

\* db.query(ChatSession).filter(id == session_id, user_id == uid).first()
OwnedSession(S, session_id, uid) ==
    \E s \in S : s.id = session_id /\ s.user_id = uid

\* the owner of the session row with this id, 0 when there is no such row
OwnerOf(S, session_id) ==
    IF \E s \in S : s.id = session_id
    THEN (CHOOSE s \in S : s.id = session_id).user_id
    ELSE 0

RECURSIVE SelectSession(_, _)
SelectSession(M, session_id) ==
    IF M = <<>> THEN <<>>
    ELSE IF Head(M).session_id = session_id
         THEN <<Head(M)>> \o SelectSession(Tail(M), session_id)
         ELSE SelectSession(Tail(M), session_id)

\* the newest `limit` messages of the session, oldest first
get_recent_context(M, session_id, limit) ==
    LET all == SelectSession(M, session_id)
    IN  IF Len(all) > limit THEN SubSeq(all, Len(all) - limit + 1, Len(all)) ELSE all

(***************************************************************************)
(* Pieces of the two handlers of app.py.                                   *)
(***************************************************************************)
Set(r, rec) == rq' = [rq EXCEPT ![r] = rec]

\* mutant: the question is tested as sent
UserMsg_Unstripped(user) == user

\* user_msg = req.user.strip()
UserMsg(user) == Strip(user)

\* the except clause of chat() turns every exception raised inside its try
\* block, an HTTPException included, into HTTPException(500)
ChatErrorStatus(raised_status) == 500

\* mutant: the reply is the model's answer also when nothing was retrieved
Reply_NoOverride(results, answer, session_id) ==
    [reply |-> answer, sources_used |-> results, session_id |-> session_id]

\* the two return statements at the end of chat()
Reply(results, answer, session_id) ==
    IF Strip(ContextText(results)) = <<>>
    THEN [reply |-> FALLBACK, sources_used |-> <<>>, session_id |-> session_id]
    ELSE [reply |-> answer, sources_used |-> results, session_id |-> session_id]

\* mutant: the row saved is the text the client sees
AssistantContent_AsReplied(results, answer) ==
    IF Strip(ContextText(results)) = <<>> THEN FALLBACK ELSE answer

\* the content chat() hands to save_message for the assistant row
AssistantContent(results, answer) == answer

\* "".join(accumulated).strip()
\* mutant: the fragments are joined with a space between them
FinalText_JoinedWithSpace(accumulated) == Strip(Join(<<" ">>, accumulated))

\* `"".join(accumulated).strip()`
FinalText(accumulated) == Strip(Join(<<>>, accumulated))

Arrive(r, path, uid, user, session_id) ==
    [rq[r] EXCEPT !.path = path, !.uid = uid, !.user = user,
                  !.session_id = session_id, !.user_msg = UserMsg(user)]

(***************************************************************************)
(* POST /api/chat                                                          *)
(***************************************************************************)
chat_begin(r, uid, user, session_id) ==
    /\ rq[r].pc = "idle"
    /\ LET req == Arrive(r, "chat", uid, user, session_id)
       IN  IF req.user_msg = <<>>
           THEN /\ Set(r, [req EXCEPT !.pc = "done", !.status = 200,
                                      !.body = [reply |-> PROMPT_FOR_INPUT]])
                /\ UNCHANGED <<sessions, next_id>>
           ELSE IF session_id = 0
           THEN /\ sessions' = create_session(sessions, next_id, uid, SessionTitle(req.user_msg))
                /\ next_id' = next_id + 1
                /\ Set(r, [req EXCEPT !.pc = "save_user", !.sid = next_id,
                                      !.created = next_id, !.owner_at_check = uid])
           ELSE IF OwnedSession(sessions, session_id, uid)
           THEN /\ Set(r, [req EXCEPT !.pc = "save_user", !.sid = session_id,
                                      !.owner_at_check = OwnerOf(sessions, session_id)])
                /\ UNCHANGED <<sessions, next_id>>
           ELSE /\ Set(r, [req EXCEPT !.pc = "done", !.status = ChatErrorStatus(404),
                                      !.owner_at_check = OwnerOf(sessions, session_id)])
                /\ UNCHANGED <<sessions, next_id>>
    /\ UNCHANGED <<disk, pdf, boot, index, pages, messages>>

\* mutant: the user message is not saved before retrieval
chat_save_user_Skipped(r) ==
    /\ rq[r].path = "chat" /\ rq[r].pc = "save_user"
    /\ messages' = messages
    /\ Set(r, [rq[r] EXCEPT !.pc = "retrieve"])
    /\ UNCHANGED <<disk, pdf, boot, index, pages, sessions, next_id>>

chat_save_user(r) ==
    /\ rq[r].path = "chat" /\ rq[r].pc = "save_user"
    /\ messages' = save_message(messages, r, rq[r].sid, "user", rq[r].user_msg)
    /\ Set(r, [rq[r] EXCEPT !.pc = "retrieve"])
    /\ UNCHANGED <<disk, pdf, boot, index, pages, sessions, next_id>>

\* req.top_k is read here for the first time; the model draws it when it is read
chat_retrieve(r, top_k) ==
    /\ rq[r].path = "chat" /\ rq[r].pc = "retrieve"
    /\ LET recent == get_recent_context(messages, rq[r].sid, RecentLimit)
       IN  \E out \in similarity_search(index, pages, rq[r].user_msg, top_k) :
             IF out.raised
             THEN Set(r, [rq[r] EXCEPT !.pc = "done", !.top_k = top_k, !.recent = recent,
                                      !.searched = TRUE, !.status = ChatErrorStatus(500)])
             ELSE Set(r, [rq[r] EXCEPT !.pc = "generate", !.top_k = top_k, !.recent = recent,
                                      !.searched = TRUE, !.results = out.results])
    /\ UNCHANGED <<disk, pdf, boot, index, pages, sessions, messages, next_id>>

\* ollama.generate returned `response`
chat_generate(r, response) ==
    /\ rq[r].path = "chat" /\ rq[r].pc = "generate"
    /\ Set(r, [rq[r] EXCEPT !.pc = "save_assistant", !.generated = TRUE,
                            !.response = response, !.answer = Strip(response)])
    /\ UNCHANGED <<disk, pdf, boot, index, pages, sessions, messages, next_id>>

\* mutant: the exception of the model call is swallowed and the empty answer
\* goes on to be saved and returned
chat_generate_fail_Swallowed(r) ==
    /\ rq[r].path = "chat" /\ rq[r].pc = "generate"
    /\ Set(r, [rq[r] EXCEPT !.pc = "save_assistant", !.generated = TRUE,
                            !.gen_failed = TRUE])
    /\ UNCHANGED <<disk, pdf, boot, index, pages, sessions, messages, next_id>>

\* ollama.generate raised: re-raised, then caught by the outer except
chat_generate_fail(r) ==
    /\ rq[r].path = "chat" /\ rq[r].pc = "generate"
    /\ Set(r, [rq[r] EXCEPT !.pc = "done", !.generated = TRUE, !.gen_failed = TRUE,
                            !.status = ChatErrorStatus(500)])
    /\ UNCHANGED <<disk, pdf, boot, index, pages, sessions, messages, next_id>>

chat_save_assistant(r) ==
    /\ rq[r].path = "chat" /\ rq[r].pc = "save_assistant"
    /\ messages' = save_message(messages, r, rq[r].sid, "assistant",
                                AssistantContent(rq[r].results, rq[r].answer))
    /\ Set(r, [rq[r] EXCEPT !.pc = "respond"])
    /\ UNCHANGED <<disk, pdf, boot, index, pages, sessions, next_id>>

chat_respond(r) ==
    /\ rq[r].path = "chat" /\ rq[r].pc = "respond"
    /\ Set(r, [rq[r] EXCEPT !.pc = "done", !.status = 200,
                            !.body = Reply(rq[r].results, rq[r].answer, rq[r].sid)])
    /\ UNCHANGED <<disk, pdf, boot, index, pages, sessions, messages, next_id>>

(***************************************************************************)
(* POST /api/chat/stream                                                   *)
(***************************************************************************)
DataEvent(piece) == [type |-> "data", piece |-> piece, session_id |-> 0]
DoneEvent(session_id) == [type |-> "done", piece |-> <<>>, session_id |-> session_id]
ErrorEvent == [type |-> "error", piece |-> <<>>, session_id |-> 0]

stream_begin(r, uid, user, session_id) ==
    /\ rq[r].pc = "idle"
    /\ LET req == Arrive(r, "stream", uid, user, session_id)
       IN  IF req.user_msg = <<>>
           THEN /\ Set(r, [req EXCEPT !.pc = "done", !.status = 400])
                /\ UNCHANGED <<sessions, next_id>>
           ELSE IF session_id = 0
           THEN /\ sessions' = create_session(sessions, next_id, uid, SessionTitle(req.user_msg))
                /\ next_id' = next_id + 1
                /\ Set(r, [req EXCEPT !.pc = "save_user", !.sid = next_id,
                                      !.created = next_id, !.owner_at_check = uid])
           ELSE IF OwnedSession(sessions, session_id, uid)
           THEN /\ Set(r, [req EXCEPT !.pc = "save_user", !.sid = session_id,
                                      !.owner_at_check = OwnerOf(sessions, session_id)])
                /\ UNCHANGED <<sessions, next_id>>
           ELSE /\ Set(r, [req EXCEPT !.pc = "done", !.status = 404,
                                      !.owner_at_check = OwnerOf(sessions, session_id)])
                /\ UNCHANGED <<sessions, next_id>>
    /\ UNCHANGED <<disk, pdf, boot, index, pages, messages>>

stream_save_user(r) ==
    /\ rq[r].path = "stream" /\ rq[r].pc = "save_user"
    /\ messages' = save_message(messages, r, rq[r].sid, "user", rq[r].user_msg)
    /\ Set(r, [rq[r] EXCEPT !.pc = "retrieve"])
    /\ UNCHANGED <<disk, pdf, boot, index, pages, sessions, next_id>>

\* an exception of similarity_search is not caught by chat_stream: the
\* framework answers 500; otherwise the StreamingResponse is returned
stream_retrieve(r, top_k) ==
    /\ rq[r].path = "stream" /\ rq[r].pc = "retrieve"
    /\ LET recent == get_recent_context(messages, rq[r].sid, RecentLimit)
       IN  \E out \in similarity_search(index, pages, rq[r].user_msg, top_k) :
             IF out.raised
             THEN Set(r, [rq[r] EXCEPT !.pc = "done", !.top_k = top_k, !.searched = TRUE,
                                      !.status = 500])
             ELSE Set(r, [rq[r] EXCEPT !.pc = "gen", !.top_k = top_k, !.recent = recent,
                                      !.status = 200, !.searched = TRUE,
                                      !.results = out.results])
    /\ UNCHANGED <<disk, pdf, boot, index, pages, sessions, messages, next_id>>

\* one iteration of the loop of event_generator: the model delivered a chunk
gen_chunk(r, piece) ==
    /\ rq[r].path = "stream" /\ rq[r].pc = "gen"
    /\ Len(rq[r].accumulated) < MaxChunks
    /\ IF piece # <<>>
       THEN Set(r, [rq[r] EXCEPT !.generated = TRUE,
                                 !.accumulated = Append(@, piece),
                                 !.events = Append(@, DataEvent(piece))])
       ELSE Set(r, [rq[r] EXCEPT !.generated = TRUE])
    /\ UNCHANGED <<disk, pdf, boot, index, pages, sessions, messages, next_id>>

\* mutant: a failure of the model call ends the stream without an event
gen_fail_Silent(r) ==
    /\ rq[r].path = "stream" /\ rq[r].pc = "gen"
    /\ Set(r, [rq[r] EXCEPT !.pc = "done", !.generated = TRUE, !.gen_failed = TRUE])
    /\ UNCHANGED <<disk, pdf, boot, index, pages, sessions, messages, next_id>>

\* the model call raised, at the first chunk or at a later one
gen_fail(r) ==
    /\ rq[r].path = "stream" /\ rq[r].pc = "gen"
    /\ Set(r, [rq[r] EXCEPT !.pc = "done", !.generated = TRUE, !.gen_failed = TRUE,
                            !.events = Append(@, ErrorEvent)])
    /\ UNCHANGED <<disk, pdf, boot, index, pages, sessions, messages, next_id>>

\* the model stream ended: finalize and persist the assistant message
gen_finish(r) ==
    /\ rq[r].path = "stream" /\ rq[r].pc = "gen"
    /\ messages' = save_message(messages, r, rq[r].sid, "assistant",
                                FinalText(rq[r].accumulated))
    /\ Set(r, [rq[r] EXCEPT !.pc = "yield_done", !.generated = TRUE,
                            !.answer = FinalText(rq[r].accumulated)])
    /\ UNCHANGED <<disk, pdf, boot, index, pages, sessions, next_id>>

gen_done(r) ==
    /\ rq[r].path = "stream" /\ rq[r].pc = "yield_done"
    /\ Set(r, [rq[r] EXCEPT !.pc = "done", !.events = Append(@, DoneEvent(rq[r].sid))])
    /\ UNCHANGED <<disk, pdf, boot, index, pages, sessions, messages, next_id>>

\* mutant: the fragments accumulated so far are saved when the client leaves
client_cancel_SavesPartial(r) ==
    /\ rq[r].path = "stream" /\ rq[r].pc = "gen"
    /\ messages' = save_message(messages, r, rq[r].sid, "assistant",
                                FinalText(rq[r].accumulated))
    /\ Set(r, [rq[r] EXCEPT !.pc = "done", !.cancelled = TRUE])
    /\ UNCHANGED <<disk, pdf, boot, index, pages, sessions, next_id>>

\* the client disconnects: the generator, suspended at a yield of a content
\* event (or not started yet), is closed and never resumed
client_cancel(r) ==
    /\ rq[r].path = "stream" /\ rq[r].pc = "gen"
    /\ Set(r, [rq[r] EXCEPT !.pc = "done", !.cancelled = TRUE])
    /\ UNCHANGED <<disk, pdf, boot, index, pages, sessions, messages, next_id>>

Next ==
    \/ \E r \in Requests, uid \in Users, user \in Questions, session_id \in SessionIds :
            \/ chat_begin(r, uid, user, session_id)
            \/ stream_begin(r, uid, user, session_id)
    \/ \E r \in Requests :
            \/ chat_save_user(r)
            \/ \E top_k \in TopKs : chat_retrieve(r, top_k)
            \/ \E response \in ModelOutputs : chat_generate(r, response)
            \/ chat_generate_fail(r)
            \/ chat_save_assistant(r)
            \/ chat_respond(r)
            \/ stream_save_user(r)
            \/ \E top_k \in TopKs : stream_retrieve(r, top_k)
            \/ \E piece \in Pieces : gen_chunk(r, piece)
            \/ gen_fail(r)
            \/ gen_finish(r)
            \/ gen_done(r)
            \/ client_cancel(r)

Spec == Init /\ [][Next]_vars

(***************************************************************************)
(* similarity_search on its own: one call per request slot.                *)
(***************************************************************************)
search(r, query, top_k) ==
    /\ rq[r].pc = "idle"
    /\ \E out \in similarity_search(index, pages, query, top_k) :
         Set(r, [rq[r] EXCEPT !.path = "search", !.pc = "done", !.user_msg = query,
                              !.top_k = top_k, !.searched = TRUE,
                              !.results = out.results,
                              !.status = IF out.raised THEN 500 ELSE 200])
    /\ UNCHANGED <<disk, pdf, boot, index, pages, sessions, messages, next_id>>

InitSearch ==
    /\ \E c \in SearchCorpora : index = c.index /\ pages = c.pages /\ disk = DiskOf(c)
    /\ pdf = DocQ
    /\ boot = ServingBoot
    /\ sessions = {}
    /\ messages = <<>>
    /\ next_id = 1
    /\ rq = [r \in Requests |-> IdleReq]

NextSearch == \E r \in Requests, query \in SearchQueries, top_k \in TopKs : search(r, query, top_k)

SpecSearch == InitSearch /\ [][NextSearch]_vars

(***************************************************************************)
(* Session creation on its own: the two handlers up to the creation of the *)
(* session, over questions whose stripped length is around the title limit.*)
(***************************************************************************)
Xs(n) == [i \in 1..n |-> "x"]

TitleQuestions ==
    { <<" ">>,
      <<" ", "a">>,
      <<" ">> \o Xs(TitleLimit),
      Xs(TitleLimit + 1) \o <<" ">> }

NextTitle ==
    \E r \in Requests, uid \in Users, user \in TitleQuestions, session_id \in SessionIds :
        \/ chat_begin(r, uid, user, session_id)
        \/ stream_begin(r, uid, user, session_id)

SpecTitle == Init /\ [][NextTitle]_vars

(***************************************************************************)
(* The session endpoints on their own: POST /api/chat/sessions and         *)
(* DELETE /api/chat/sessions/{session_id}.  A request slot holds the       *)
(* outcome of the latest call made through it.  The mapping of ChatSession *)
(* to its messages is declared outside these files, so a successful delete *)
(* either keeps or removes the message rows of the session.                *)
(***************************************************************************)
MaxSessions == 3

SessionTitles == { <<"a">> }

DeleteIds == 1..MaxSessions

\* mutant: the session is looked up by its id alone
delete_session_AnyOwner(S, session_id, user_id) ==
    LET session == { s \in S : s.id = session_id }
    IN  IF session # {}
        THEN [success |-> TRUE, sessions |-> S \ session]
        ELSE [success |-> FALSE, sessions |-> S]

\* ChatPersistenceManager.delete_session
delete_session(S, session_id, user_id) ==
    LET session == { s \in S : s.id = session_id /\ s.user_id = user_id }
    IN  IF session # {}
        THEN [success |-> TRUE, sessions |-> S \ session]
        ELSE [success |-> FALSE, sessions |-> S]

WithoutSession(M, session_id) == SelectSeq(M, LAMBDA m : m.session_id # session_id)

delete_chat_session(r, uid, session_id) ==
    LET result == delete_session(sessions, session_id, uid)
    IN  /\ sessions' = result.sessions
        /\ IF result.success
           THEN /\ messages' \in {messages, WithoutSession(messages, session_id)}
                /\ Set(r, [IdleReq EXCEPT !.path = "delete", !.pc = "done", !.uid = uid,
                                          !.session_id = session_id, !.status = 200])
           ELSE /\ messages' = messages
                /\ Set(r, [IdleReq EXCEPT !.path = "delete", !.pc = "done", !.uid = uid,
                                          !.session_id = session_id, !.status = 404])
        /\ UNCHANGED <<disk, pdf, boot, index, pages, next_id>>

create_chat_session(r, uid, title) ==
    /\ next_id <= MaxSessions
    /\ sessions' = create_session(sessions, next_id, uid, title)
    /\ next_id' = next_id + 1
    /\ Set(r, [IdleReq EXCEPT !.path = "create", !.pc = "done", !.uid = uid,
                              !.created = next_id, !.status = 200])
    /\ UNCHANGED <<disk, pdf, boot, index, pages, messages>>

InitSessions ==
    /\ \E c \in Corpora : index = c.index /\ pages = c.pages /\ disk = DiskOf(c)
    /\ pdf = DocQ
    /\ boot = ServingBoot
    /\ sessions = { [id |-> 1, user_id |-> 1, title |-> <<"a">>],
                    [id |-> 2, user_id |-> 2, title |-> <<"a">>] }
    /\ messages = << [session_id |-> 1, role |-> "user", content |-> <<"a">>, req |-> "r1"],
                     [session_id |-> 2, role |-> "user", content |-> <<"a">>, req |-> "r2"] >>
    /\ next_id = 3
    /\ rq = [r \in Requests |-> IdleReq]

NextSessions ==
    \E r \in Requests, uid \in Users :
        \/ \E session_id \in DeleteIds : delete_chat_session(r, uid, session_id)
        \/ \E title \in SessionTitles : create_chat_session(r, uid, title)

SpecSessions == InitSessions /\ [][NextSessions]_vars

(***************************************************************************)
(* Startup (loader.py and the module level of app.py).  The process is     *)
(* started, runs build_or_load_index and serves; it can be killed at any   *)
(* point and started again.  Between runs the document can be replaced     *)
(* and an artifact file removed (the only way to make the code re-index,   *)
(* since a pair of existing files is always loaded).                       *)
(***************************************************************************)
RECURSIVE read_pdf_pages(_)
read_pdf_pages(units) ==
    IF units = <<>> THEN <<>>
    ELSE LET text == Strip(Head(units))
         IN  IF text # <<>> THEN <<text>> \o read_pdf_pages(Tail(units))
             ELSE read_pdf_pages(Tail(units))

\* model.encode(pages): one vector per passage, in order
EmbedAll(pgs) == [i \in DOMAIN pgs |-> Embed(pgs[i])]

\* os.path.exists
Exists(file) == file.state # "absent"

\* faiss.read_index / pickle.load raise on a file that is not complete
Readable(file) == file.state = "full"

\* mutant: a build goes on with an empty passage list
EmptyCorpus_Ignored(pgs) == FALSE

\* `if not pages: raise RuntimeError(...)`
EmptyCorpus(pgs) == pgs = <<>>

\* the test of load_index: both files exist
CacheHit(d) == Exists(d.faiss) /\ Exists(d.texts)

Running == boot.pc \notin {"off", "failed"}

Fail(cause) ==
    /\ boot' = [boot EXCEPT !.pc = "failed", !.cause = cause]
    /\ index' = <<>> /\ pages' = <<>>

start ==
    /\ ~Running
    /\ boot' = [boot EXCEPT !.pc = "load", !.cause = "none", !.cached = FALSE,
                            !.new_index = <<>>, !.new_pages = <<>>, !.disk0 = disk]
    /\ UNCHANGED <<disk, pdf, index, pages, sessions, messages, next_id, rq>>

\* load_index and the test of build_or_load_index on what it returned
load_index ==
    /\ boot.pc = "load"
    /\ IF CacheHit(disk)
       THEN IF Readable(disk.faiss) /\ Readable(disk.texts)
            THEN /\ index' = disk.faiss.content
                 /\ pages' = disk.texts.content
                 /\ boot' = [boot EXCEPT !.pc = "serving", !.cached = TRUE]
            ELSE Fail("load")
       ELSE /\ boot' = [boot EXCEPT !.pc = "build"]
            /\ UNCHANGED <<index, pages>>
    /\ UNCHANGED <<disk, pdf, sessions, messages, next_id, rq>>

\* build_index_from_pdf up to index.add
build_extract ==
    /\ boot.pc = "build"
    /\ boot.builds < MaxBuilds
    /\ IF ~pdf.exists THEN Fail("extraction")
       ELSE IF EmptyCorpus(read_pdf_pages(pdf.units)) THEN Fail("empty")
       ELSE /\ boot' = [boot EXCEPT !.pc = "write_index", !.builds = @ + 1,
                                    !.new_pages = read_pdf_pages(pdf.units),
                                    !.new_index = EmbedAll(read_pdf_pages(pdf.units))]
            /\ UNCHANGED <<index, pages>>
    /\ UNCHANGED <<disk, pdf, sessions, messages, next_id, rq>>

\* faiss.write_index: the file is created, then its content written
write_index_open ==
    /\ boot.pc = "write_index"
    /\ disk' = [disk EXCEPT !.faiss = PartialFile(boot.builds)]
    /\ boot' = [boot EXCEPT !.pc = "write_index_close"]
    /\ UNCHANGED <<pdf, index, pages, sessions, messages, next_id, rq>>

write_index_close ==
    /\ boot.pc = "write_index_close"
    /\ disk' = [disk EXCEPT !.faiss = FullFile(boot.builds, boot.new_index)]
    /\ boot' = [boot EXCEPT !.pc = "write_texts"]
    /\ UNCHANGED <<pdf, index, pages, sessions, messages, next_id, rq>>

\* open(INDEX_TEXTS_PATH, "wb") truncates or creates the file
write_texts_open ==
    /\ boot.pc = "write_texts"
    /\ disk' = [disk EXCEPT !.texts = PartialFile(boot.builds)]
    /\ boot' = [boot EXCEPT !.pc = "write_texts_close"]
    /\ UNCHANGED <<pdf, index, pages, sessions, messages, next_id, rq>>

\* pickle.dump, the return of the build and `index is not None` in app.py
write_texts_close ==
    /\ boot.pc = "write_texts_close"
    /\ disk' = [disk EXCEPT !.texts = FullFile(boot.builds, boot.new_pages)]
    /\ index' = boot.new_index
    /\ pages' = boot.new_pages
    /\ boot' = [boot EXCEPT !.pc = "serving"]
    /\ UNCHANGED <<pdf, sessions, messages, next_id, rq>>

\* the process is killed (or stopped) wherever it is
crash ==
    /\ Running
    /\ boot' = [boot EXCEPT !.pc = "off"]
    /\ index' = <<>> /\ pages' = <<>>
    /\ UNCHANGED <<disk, pdf, sessions, messages, next_id, rq>>

replace_pdf(d) ==
    /\ ~Running
    /\ pdf # d
    /\ pdf' = d
    /\ UNCHANGED <<disk, boot, index, pages, sessions, messages, next_id, rq>>

remove_artifact(f) ==
    /\ ~Running
    /\ Exists(disk[f])
    /\ disk' = [disk EXCEPT ![f] = AbsentFile]
    /\ UNCHANGED <<pdf, boot, index, pages, sessions, messages, next_id, rq>>

InitStartup ==
    /\ disk = [faiss |-> AbsentFile, texts |-> AbsentFile]
    /\ pdf \in Documents
    /\ boot = OffBoot
    /\ index = <<>> /\ pages = <<>>
    /\ sessions = {}
    /\ messages = <<>>
    /\ next_id = 1
    /\ rq = [r \in Requests |-> IdleReq]

NextStartup ==
    \/ start
    \/ load_index
    \/ build_extract
    \/ write_index_open
    \/ write_index_close
    \/ write_texts_open
    \/ write_texts_close
    \/ crash
    \/ \E d \in Documents : replace_pdf(d)
    \/ \E f \in {"faiss", "texts"} : remove_artifact(f)

SpecStartup == InitStartup /\ [][NextStartup]_vars

(***************************************************************************)
(* Vocabulary of the properties.                                           *)
(***************************************************************************)
RECURSIVE SelectSaved(_, _, _)
SelectSaved(M, r, role) ==
    IF M = <<>> THEN <<>>
    ELSE IF Head(M).req = r /\ Head(M).role = role
         THEN <<Head(M)>> \o SelectSaved(Tail(M), r, role)
         ELSE SelectSaved(Tail(M), r, role)

\* the rows request r saved with this role
Saved(r, role) == SelectSaved(messages, r, role)

Blank(text) == \A i \in DOMAIN text : IsSpace(text[i])

\* r has passed validation and named a session its user does not own
NamedForeignSession(r) ==
    /\ rq[r].path \in {"chat", "stream"}
    /\ ~Blank(rq[r].user)
    /\ rq[r].session_id # 0
    /\ rq[r].owner_at_check # rq[r].uid

\* generation of a blocking request returned
Completed(r) == rq[r].path = "chat" /\ rq[r].generated /\ ~rq[r].gen_failed

PiecesOf(events) == [i \in DOMAIN events |-> events[i].piece]

\* the content events of the stream, concatenated as the client receives them
Delivered(r) ==
    Join(<<>>, PiecesOf(SelectSeq(rq[r].events, LAMBDA e : e.type = "data")))

Terminal(e) == e.type \in {"done", "error"}

(***************************************************************************)
(* C1: on /api/chat, when retrieval returned zero passages and the model   *)
(* call returned, the response is 200 with reply equal to the fallback     *)
(* sentence and sources_used empty, whatever the model answered.           *)
(***************************************************************************)
C1_FallbackOnZeroPassages ==
    \A r \in Requests :
        (Completed(r) /\ rq[r].pc = "done" /\ rq[r].results = <<>>)
        => /\ rq[r].status = 200
           /\ rq[r].body.reply = FALLBACK
           /\ rq[r].body.sources_used = <<>>

\* a completed blocking request on a non-empty index (top_k >= 1) that got
\* zero passages while the model answered something else than the fallback
C1_Witness ==
    \E r \in Requests :
        /\ Completed(r) /\ rq[r].pc = "done" /\ rq[r].results = <<>>
        /\ rq[r].top_k >= 1
        /\ rq[r].answer # <<>> /\ rq[r].answer # FALLBACK

(***************************************************************************)
(* C2: on /api/chat/stream, when retrieval returned zero passages, every   *)
(* content event carries the fallback sentence and a completed stream has  *)
(* delivered exactly the fallback sentence.                                *)
(***************************************************************************)
C2_StreamFallbackOnZeroPassages ==
    \A r \in Requests :
        (rq[r].path = "stream" /\ rq[r].status = 200 /\ rq[r].results = <<>>)
        => /\ \A i \in DOMAIN rq[r].events :
                rq[r].events[i].type = "data" => rq[r].events[i].piece = FALLBACK
           /\ (rq[r].pc = "done" /\ ~rq[r].cancelled /\ ~rq[r].gen_failed)
                => Delivered(r) = FALLBACK

(***************************************************************************)
(* C3: a chat request (either path) that passed validation and named a     *)
(* session its user does not own ends with status 404.                     *)
(***************************************************************************)
C3_ForeignSessionIs404 ==
    \A r \in Requests : NamedForeignSession(r) => rq[r].status = 404

(***************************************************************************)
(* C4: a request that names a session its user does not own changes no     *)
(* session and no message in the step that checks ownership, ends there,   *)
(* and never saves a message, creates a session, retrieves or generates;   *)
(* every persisted message was saved by a request whose user owned the     *)
(* message's session when the request checked (or created) it.             *)
(***************************************************************************)
C4_ForeignState ==
    /\ \A r \in Requests :
          NamedForeignSession(r)
          => /\ rq[r].pc = "done"
             /\ Saved(r, "user") = <<>> /\ Saved(r, "assistant") = <<>>
             /\ rq[r].created = 0
             /\ ~rq[r].searched /\ ~rq[r].generated
    /\ \A i \in DOMAIN messages :
          /\ rq[messages[i].req].owner_at_check = rq[messages[i].req].uid
          /\ messages[i].session_id = rq[messages[i].req].sid

C4_ForeignStep ==
    \A r \in Requests :
        (rq[r].pc = "idle" /\ rq'[r].pc # "idle"
            /\ rq'[r].session_id # 0 /\ ~Blank(rq'[r].user)
            /\ ~(\E s \in sessions : s.id = rq'[r].session_id /\ s.user_id = rq'[r].uid))
        => UNCHANGED <<sessions, messages, next_id>>

C4_ForeignSessionNoEffect == [] C4_ForeignState /\ [][C4_ForeignStep]_vars

\* a refused request next to a request that did save a message
C4_Witness ==
    \E r, o \in Requests :
        /\ NamedForeignSession(r) /\ rq[r].pc = "done"
        /\ Saved(o, "user") # <<>>

(***************************************************************************)
(* C5: a request whose question is empty or whitespace-only ends at        *)
(* validation: /api/chat answers 200 with the prompt-for-input reply,      *)
(* /api/chat/stream answers 400; no session is created, no message saved,  *)
(* and neither retrieval nor generation runs.                              *)
(***************************************************************************)
C5_BlankState ==
    \A r \in Requests :
        (rq[r].path \in {"chat", "stream"} /\ Blank(rq[r].user))
        => /\ rq[r].pc = "done"
           /\ rq[r].path = "chat" => rq[r].status = 200 /\ rq[r].body = [reply |-> PROMPT_FOR_INPUT]
           /\ rq[r].path = "stream" => rq[r].status = 400 /\ rq[r].events = <<>>
           /\ rq[r].created = 0
           /\ Saved(r, "user") = <<>> /\ Saved(r, "assistant") = <<>>
           /\ ~rq[r].searched /\ ~rq[r].generated

C5_BlankStep ==
    \A r \in Requests :
        (rq[r].pc = "idle" /\ rq'[r].pc # "idle" /\ Blank(rq'[r].user))
        => UNCHANGED <<sessions, messages, next_id>>

C5_BlankShortCircuit == [] C5_BlankState /\ [][C5_BlankStep]_vars

\* a whitespace-only question answered on each path
C5_Witness ==
    \E r, o \in Requests :
        /\ rq[r].path = "chat" /\ rq[r].user = <<" ">> /\ rq[r].status = 200
        /\ rq[o].path = "stream" /\ rq[o].user = <<" ">> /\ rq[o].status = 400

(***************************************************************************)
(* C6: for k >= 1 and a corpus of n >= 1 passages (index and passage list  *)
(* of the same size n), similarity_search returns at most min(k, n) texts, *)
(* in order of non-decreasing distance to the query.                       *)
(***************************************************************************)
Min(a, b) == IF a <= b THEN a ELSE b

\* distance between the query and the vector of the passage with this text
TextDist(text, query) ==
    Dist(index[CHOOSE i \in DOMAIN pages : pages[i] = text], Embed(query))

C7_EventsState ==
    \A r \in Requests :
        (rq[r].path = "stream" /\ rq[r].status = 200)
        => LET ev == rq[r].events
           IN  /\ \A i \in DOMAIN ev : i < Len(ev) => ev[i].type = "data"
               /\ \A i \in DOMAIN ev : ev[i].type = "data" => ev[i].piece # <<>>
               /\ (rq[r].pc = "done" /\ ~rq[r].cancelled)
                    => /\ ev # <<>>
                       /\ Terminal(ev[Len(ev)])
                       /\ ev[Len(ev)].type = "done" => ev[Len(ev)].session_id = rq[r].sid
               /\ rq[r].gen_failed
                    => /\ ev # <<>>
                       /\ ev[Len(ev)].type = "error"
                       /\ PiecesOf(SubSeq(ev, 1, Len(ev) - 1)) = rq[r].accumulated

C7_EventsStep ==
    \A r \in Requests :
        (rq[r].events # <<>> /\ Terminal(rq[r].events[Len(rq[r].events)]))
        => rq'[r].events = rq[r].events

C7_ContentThenOneTerminal == [] C7_EventsState /\ [][C7_EventsStep]_vars

\* a model failure after a fragment had been emitted
C7_Witness ==
    \E r \in Requests :
        /\ rq[r].path = "stream" /\ rq[r].pc = "done" /\ rq[r].gen_failed
        /\ Len(rq[r].events) >= 2

(***************************************************************************)
(* C8: a streaming request has saved an assistant message if and only if   *)
(* its model stream was consumed to the end without failure, and then      *)
(* exactly one, the stripped concatenation of the fragments; after a model *)
(* failure or a client disconnect it has saved none.                       *)
(***************************************************************************)
ConsumedToEnd(r) ==
    \/ rq[r].pc = "yield_done"
    \/ rq[r].pc = "done" /\ rq[r].status = 200 /\ ~rq[r].gen_failed /\ ~rq[r].cancelled

C8_PersistOnlyOnCompleted ==
    \A r \in Requests :
        rq[r].path = "stream"
        => /\ Saved(r, "assistant") # <<>> <=> ConsumedToEnd(r)
           /\ Len(Saved(r, "assistant")) <= 1
           /\ \A i \in DOMAIN Saved(r, "assistant") :
                Saved(r, "assistant")[i].content = Strip(Join(<<>>, rq[r].accumulated))
           /\ (rq[r].gen_failed \/ rq[r].cancelled) => Saved(r, "assistant") = <<>>

\* a disconnect and a model failure, each after a fragment had been emitted
C8_Witness ==
    \E r, o \in Requests :
        /\ rq[r].path = "stream" /\ rq[r].cancelled /\ rq[r].accumulated # <<>>
        /\ rq[o].path = "stream" /\ rq[o].gen_failed /\ rq[o].accumulated # <<>>

(***************************************************************************)
(* C9: when the model call of a blocking request fails, the request ends   *)
(* with an error status, it has saved no assistant message, and what it    *)
(* leaves in persistence is its one user message and, only if it came      *)
(* without a session id, the session it created.                           *)
(***************************************************************************)
C9_BlockingFailureLeavesUserMessageOnly ==
    \A r \in Requests :
        (rq[r].path = "chat" /\ rq[r].gen_failed)
        => /\ rq[r].pc = "done" /\ rq[r].status >= 400
           /\ Saved(r, "assistant") = <<>>
           /\ Len(Saved(r, "user")) = 1
           /\ Saved(r, "user")[1].content = Strip(rq[r].user)
           /\ Saved(r, "user")[1].session_id = rq[r].sid
           /\ rq[r].created # 0 <=> rq[r].session_id = 0
           /\ rq[r].created # 0 => rq[r].created = rq[r].sid

\* a failed model call of a request that had created its session
C9_Witness ==
    \E r \in Requests :
        rq[r].path = "chat" /\ rq[r].gen_failed /\ rq[r].created # 0

(***************************************************************************)
(* C10: every assistant message saved by a blocking request is the         *)
(* stripped output of the model; it is in place before the reply is        *)
(* returned, and it is the model output also when the reply returned is    *)
(* the fallback sentence.                                                  *)
(***************************************************************************)
C10_PersistedIsModelOutput ==
    \A r \in Requests :
        rq[r].path = "chat"
        => /\ \A i \in DOMAIN Saved(r, "assistant") :
                Saved(r, "assistant")[i].content = Strip(rq[r].response)
           /\ (Completed(r) /\ rq[r].pc \in {"respond", "done"})
                => Len(Saved(r, "assistant")) = 1
           /\ Saved(r, "assistant") # <<>> => Completed(r)

\* the reply was overridden by the fallback and the saved row differs from it
C10_Witness ==
    \E r \in Requests :
        /\ rq[r].path = "chat" /\ rq[r].pc = "done" /\ rq[r].status = 200
        /\ rq[r].body.reply = FALLBACK
        /\ Saved(r, "assistant") # <<>>
        /\ Saved(r, "assistant")[1].content = <<"n", "o">>

(***************************************************************************)
(* C11: a request with a non-blank question and no session id creates      *)
(* exactly one session, owned by the requester, whose title is the         *)
(* stripped question q if len(q) <= 50 and the first 50 characters of q    *)
(* followed by "..." otherwise.                                            *)
(***************************************************************************)
ExpectedTitle(q) ==
    IF Len(q) > 50 THEN SubSeq(q, 1, 50) \o <<".", ".", ".">> ELSE q

C11_TitleState ==
    \A r \in Requests :
        (rq[r].path \in {"chat", "stream"} /\ rq[r].session_id = 0 /\ ~Blank(rq[r].user))
        => /\ rq[r].created # 0 /\ rq[r].created = rq[r].sid
           /\ Cardinality({ s \in sessions : s.id = rq[r].created }) = 1
           /\ \A s \in sessions :
                s.id = rq[r].created
                => s.user_id = rq[r].uid /\ s.title = ExpectedTitle(Strip(rq[r].user))

C11_TitleStep ==
    \A r \in Requests :
        (rq[r].pc = "idle" /\ rq'[r].pc # "idle")
        => IF rq'[r].session_id = 0 /\ ~Blank(rq'[r].user)
           THEN Cardinality(sessions' \ sessions) = 1 /\ sessions \subseteq sessions'
           ELSE sessions' = sessions

C11_OneSessionWithTitle == [] C11_TitleState /\ [][C11_TitleStep]_vars

\* a session created from a question of 50 characters and one from 51
C11_Witness ==
    \E r, o \in Requests :
        /\ rq[r].created # 0 /\ Len(rq[r].user_msg) = 50
        /\ rq[o].created # 0 /\ Len(rq[o].user_msg) = 51
        /\ \E s \in sessions : s.id = rq[o].created /\ Len(s.title) = 53

(***************************************************************************)
(* C12: the startup serves a pair loaded from the artifact files only when *)
(* the index and the passage list have the same size; the index and the    *)
(* passage list the handlers get always have the same size.                *)
(***************************************************************************)
C12_ServedSizesEqual ==
    boot.pc = "serving" => Len(index) = Len(pages)

(***************************************************************************)
(* C13: an artifact file that is absent or unreadable makes load_index     *)
(* return nothing and the startup rebuild; the startup never fails         *)
(* because of an artifact file.                                            *)
(***************************************************************************)
C13_BadArtifactIsCacheMiss ==
    /\ boot.pc = "failed" => boot.cause \in {"extraction", "empty"}
    /\ (boot.pc \notin {"off", "load"}
          /\ (~Readable(boot.disk0.faiss) \/ ~Readable(boot.disk0.texts)))
         => ~boot.cached

(***************************************************************************)
(* C14: whatever the point at which earlier runs were killed, a startup    *)
(* that has passed load_index either loaded two complete files written by  *)
(* the same build or went on to rebuild.                                   *)
(***************************************************************************)
C14_LoadsOneBuildOrMisses ==
    boot.pc \notin {"off", "load"}
    => \/ /\ boot.cached
          /\ Readable(boot.disk0.faiss) /\ Readable(boot.disk0.texts)
          /\ boot.disk0.faiss.build = boot.disk0.texts.build
       \/ /\ ~boot.cached
          /\ ~(boot.pc = "failed" /\ boot.cause = "load")

(***************************************************************************)
(* C15: when extraction yields zero passages the build fails before it     *)
(* writes any file and the startup ends; the process never serves with an  *)
(* empty index or passage list and no complete artifact file is empty.     *)
(***************************************************************************)
C15_EmptyState ==
    /\ boot.pc = "serving" => index # <<>> /\ pages # <<>>
    /\ \A f \in {"faiss", "texts"} : Readable(disk[f]) => disk[f].content # <<>>

C15_EmptyStep ==
    (boot.pc = "build" /\ pdf.exists /\ read_pdf_pages(pdf.units) = <<>>)
    => /\ boot'.pc = "off" \/ (boot'.pc = "failed" /\ boot'.cause = "empty")
       /\ disk' = disk

C15_EmptyCorpusIsFatal == [] C15_EmptyState /\ [][C15_EmptyStep]_vars

\* a rebuild over a document without text, with an older artifact on disk
C15_Witness ==
    /\ boot.pc = "failed" /\ boot.cause = "empty"
    /\ pdf = DocBlank
    /\ Exists(disk.texts)

(***************************************************************************)
(* C16: a delete request answers success and removes the session exactly   *)
(* when a session with that id owned by the caller exists; otherwise it    *)
(* answers 404 and leaves the sessions as they were.  A session leaves the *)
(* table only through a successful delete made by its owner.               *)
(***************************************************************************)
C16_DeleteStep ==
    /\ \A s \in sessions \ sessions' :
          \E r \in Requests :
              /\ rq'[r] # rq[r]
              /\ rq'[r].path = "delete" /\ rq'[r].status = 200
              /\ rq'[r].uid = s.user_id /\ rq'[r].session_id = s.id
    /\ \A r \in Requests :
          (rq'[r] # rq[r] /\ rq'[r].path = "delete")
          => LET owned == { s \in sessions : s.id = rq'[r].session_id
                                              /\ s.user_id = rq'[r].uid }
             IN  IF owned # {}
                 THEN rq'[r].status = 200 /\ sessions' = sessions \ owned
                 ELSE rq'[r].status = 404 /\ sessions' = sessions

C16_DeleteOnlyByOwner == [][C16_DeleteStep]_vars

\* one caller was refused the session of the other user, which is still
\* there, and the other caller has deleted a session of their own
C16_Witness ==
    \E r, o \in Requests :
        /\ rq[r].path = "delete" /\ rq[r].status = 404
        /\ \E s \in sessions : s.id = rq[r].session_id /\ s.user_id # rq[r].uid
        /\ rq[o].path = "delete" /\ rq[o].status = 200
        /\ \A s \in sessions : s.id # rq[o].session_id

(***************************************************************************)
(* C17: a request that passes validation goes through session resolution,  *)
(* saving of the user message, retrieval, generation, saving of the        *)
(* assistant message and the response, in this order, on both paths: the   *)
(* user message is saved before retrieval or generation starts, the        *)
(* assistant message only after generation has finished, and the final     *)
(* response or the done event comes only after the assistant message is    *)
(* saved.                                                                  *)
(***************************************************************************)
StepOrder ==
    { <<"idle", "save_user">>, <<"save_user", "retrieve">>,
      <<"retrieve", "generate">>, <<"generate", "save_assistant">>,
      <<"save_assistant", "respond">>,
      <<"retrieve", "gen">>, <<"gen", "yield_done">> }

GenerationFinished(r) ==
    /\ rq[r].searched /\ rq[r].generated /\ ~rq[r].gen_failed
    /\ rq[r].pc \in {"respond", "yield_done", "done"}

C17_OrderState ==
    \A r \in Requests :
        /\ (rq[r].searched \/ rq[r].generated) => Len(Saved(r, "user")) = 1
        /\ Saved(r, "assistant") # <<>> => GenerationFinished(r)
        /\ (rq[r].path = "chat" /\ rq[r].pc = "done" /\ rq[r].status = 200
              /\ rq[r].user_msg # <<>>)
             => Len(Saved(r, "assistant")) = 1
        /\ (\E i \in DOMAIN rq[r].events : rq[r].events[i].type = "done")
             => Len(Saved(r, "assistant")) = 1

C17_OrderStep ==
    \A r \in Requests :
        /\ rq'[r].pc # rq[r].pc
             => <<rq[r].pc, rq'[r].pc>> \in StepOrder \/ rq'[r].pc = "done"
        /\ SelectSaved(messages', r, "user") # SelectSaved(messages, r, "user")
             => rq[r].pc = "save_user" /\ rq'[r].pc = "retrieve"
        /\ SelectSaved(messages', r, "assistant") # SelectSaved(messages, r, "assistant")
             => \/ rq[r].pc = "save_assistant" /\ rq'[r].pc = "respond"
                \/ rq[r].pc = "gen" /\ rq'[r].pc = "yield_done"

C17_StepsInOrder == [] C17_OrderState /\ [][C17_OrderStep]_vars

\* a blocking request has answered and a streaming request has sent its done
\* event, each with its two messages saved
C17_Witness ==
    \E r, o \in Requests :
        /\ rq[r].path = "chat" /\ rq[r].pc = "done" /\ rq[r].status = 200
        /\ Len(Saved(r, "user")) = 1 /\ Len(Saved(r, "assistant")) = 1
        /\ rq[o].path = "stream" /\ rq[o].pc = "done"
        /\ \E i \in DOMAIN rq[o].events : rq[o].events[i].type = "done"
        /\ Len(Saved(o, "user")) = 1 /\ Len(Saved(o, "assistant")) = 1

(***************************************************************************)
(* C18: when a streaming request has run to its end, the saved assistant   *)
(* content is the concatenation, in order, of exactly the non-empty        *)
(* fragments sent to the client, stripped of leading and trailing          *)
(* whitespace: no fragment sent is dropped, repeated or moved, and nothing *)
(* that was not sent is saved.                                             *)
(***************************************************************************)
C18_PersistedIsDelivered ==
    \A r \in Requests :
        (rq[r].path = "stream" /\ ConsumedToEnd(r))
        => LET sent == PiecesOf(SelectSeq(rq[r].events, LAMBDA e : e.type = "data"))
           IN  /\ \A i \in DOMAIN sent : sent[i] # <<>>
               /\ sent = rq[r].accumulated
               /\ Len(Saved(r, "assistant")) = 1
               /\ Saved(r, "assistant")[1].content = Strip(Join(<<>>, sent))

\* a stream of two fragments has ended and its text is saved
C18_Witness ==
    \E r \in Requests :
        /\ rq[r].path = "stream" /\ rq[r].pc = "done" /\ ConsumedToEnd(r)
        /\ Len(rq[r].accumulated) = 2
        /\ Saved(r, "assistant") # <<>>
        /\ Saved(r, "assistant")[1].content = <<"o", " ", "o">>

(***************************************************************************)
(* C19: the recent conversation a chat request puts into its prompt holds  *)
(* only messages saved before the current question and not the user        *)
(* message of the request itself.                                          *)
(***************************************************************************)
C19_RecentExcludesCurrent ==
    \A r \in Requests :
        rq[r].searched
        => \A i \in DOMAIN rq[r].recent : rq[r].recent[i].req # r

(***************************************************************************)
(* C20: every text similarity_search returns is pages[i] for an ordinal i  *)
(* reported by the index with 0 <= i < len(pages), in the order reported;  *)
(* a reported ordinal outside this range adds nothing to the result.       *)
(***************************************************************************)
RECURSIVE InRangeTexts(_, _)
InRangeTexts(ordinals, pgs) ==
    IF ordinals = <<>> THEN <<>>
    ELSE IF 0 <= Head(ordinals) /\ Head(ordinals) < Len(pgs)
         THEN <<pgs[Head(ordinals) + 1]>> \o InRangeTexts(Tail(ordinals), pgs)
         ELSE InRangeTexts(Tail(ordinals), pgs)

C20_ResultsAreInRangeOrdinals ==
    \A r \in Requests :
        (rq[r].path = "search" /\ rq[r].top_k >= 1)
        => /\ rq[r].status = 200
           /\ rq[r].results =
                InRangeTexts(IndexSearch(index, Embed(rq[r].user_msg), rq[r].top_k), pages)

(***************************************************************************)
(* C21: whatever the interleaving of the requests made on one session, in  *)
(* the saved message sequence of the session every assistant message comes *)
(* right after the user message of the same request.                       *)
(***************************************************************************)
SessionHistory(session_id) == SelectSession(messages, session_id)

C21_ExchangesNotInterleaved ==
    \A s \in sessions :
        LET h == SessionHistory(s.id)
        IN  \A i \in DOMAIN h :
                h[i].role = "assistant"
                => /\ i > 1
                   /\ h[i - 1].role = "user"
                   /\ h[i - 1].req = h[i].req

====
